---- MODULE Spec2Model ----
(***************************************************************************)
(* The changeset decoder (update/parser/parser.go) and the tag filters     *)
(* (mapping/filter.go) of imposm3.                                         *)
(*                                                                         *)
(* The decoder is one goroutine running parse(): it opens the file, wraps  *)
(* it in a gzip reader, pulls tokens from an xml.Decoder and hands         *)
(* DiffElem values to the consumer over the unbuffered channel elems; a    *)
(* fatal error goes over the unbuffered channel errc.  The document is     *)
(* produced token by token by the tokenizer, which keeps the stack of open *)
(* elements (encoding/xml rejects an end tag that does not match).         *)
(***************************************************************************)
EXTENDS Integers, Sequences, FiniteSets, TLC

\* Length of the longest document, in tokens, and its deepest nesting.
MaxTokens == 8
MaxDepth == 4

VARIABLES
    pc,          \* position of parse(): open, gzip, token, sendElem, sendErr, ret, done
    metadata,    \* the metadata argument of parse (Parse: FALSE, ParseFull: TRUE)
    fileOpen,    \* the os.File is open
    readerOpen,  \* the gzip.Reader exists and has not been closed
    stack,       \* tokenizer: the open elements, outermost first
    ntok,        \* tokenizer: tokens delivered so far
    add, mod, del,   \* operation context
    tags,        \* reference to the pending tag map
    node, way, rel,  \* references to the scratch records
    nodes, ways, rels, maps,  \* the heap: records and tag maps by reference
    pendElem,    \* <<e>> while parse() is blocked in elems <- e
    pendErr,     \* <<err>> while parse() is blocked in errc <- err
    elemsClosed, errcClosed,
    recvd,       \* consumer: the DiffElems received, in order
    errs,        \* consumer: the errors received, in order
    drainElems, drainErr,  \* consumer: still receiving from elems / errc
    closedDoc,   \* document: the node/way/relation elements closed so far
    schemaOK,    \* document: every token so far follows the osmChange schema
    docEnded,    \* document: the outermost element has been closed
    failure,     \* environment: <<cause>> once a call has failed fatally
    inputEnded,  \* document: the input holds nothing after the last token read
                 \* (known once the reading has stopped)
    fpc,         \* position of a Filter call: idle, call, range, wrapped, done
    fkind,       \* the receiver: "tag" (TagFilter) or "relation" (RelationTagFilter)
    fmappings,   \* f.mappings: key -> the values accepted for it
    fextra,      \* f.extraTags: the keys always retained
    ftags,       \* the caller's tag map, filtered in place
    fin,         \* the tag map as it was passed
    ftodo,       \* keys the range loop has still to visit
    foundMapping,
    fwrapped,    \* <<b>>: what TagFilter.Filter returned
    fret,        \* <<b>>: what the call returned
    fprev,       \* <<r>>: the tag map left and the result of the call before this one
    gpc, gtags, gin, gtodo, gfound, gret
                 \* a second call of the same filter, running at the same time
                 \* on a tag map of its own: its position, tag map, tag map as
                 \* passed, keys to visit, foundMapping and result

decoderVars == <<pc, metadata, fileOpen, readerOpen, stack, ntok, add, mod, del,
                 tags, node, way, rel, nodes, ways, rels, maps, pendElem, pendErr,
                 elemsClosed, errcClosed, recvd, errs, drainElems, drainErr,
                 closedDoc, schemaOK, docEnded, failure, inputEnded>>

otherCallVars == <<gpc, gtags, gin, gtodo, gfound, gret>>

filterVars == <<fpc, fkind, fmappings, fextra, fprev, ftags, fin, ftodo, foundMapping,
                fwrapped, fret, otherCallVars>>

-----------------------------------------------------------------------------
(* Attribute values and their conversions *)

Sections == {"create", "modify", "delete"}
Elements == {"node", "way", "relation"}

\* strconv.ParseInt(s, 10, 64): the value and whether err is nil.  A syntax
\* error yields 0; a value out of range yields the largest int64 (scaled to
\* the checker's integer width).
MaxInt64 == 2147483647
IntTable == ("1" :> 1) @@ ("2" :> 2) @@ ("5" :> 5) @@ ("+2" :> 2)
ParseInt(s) ==
    IF s \in DOMAIN IntTable THEN [val |-> IntTable[s], ok |-> TRUE]
    ELSE IF s = "99999999999999999999" THEN [val |-> MaxInt64, ok |-> FALSE]
    ELSE [val |-> 0, ok |-> FALSE]

\* strconv.ParseFloat(s, 64), in tenths of a degree.
FloatTable == ("1.0" :> 10) @@ ("2.5" :> 25) @@ ("1" :> 10)
ParseFloat(s) ==
    IF s \in DOMAIN FloatTable THEN [val |-> FloatTable[s], ok |-> TRUE]
    ELSE [val |-> 0, ok |-> FALSE]

\* time.Parse(time.RFC3339, s): the instant in UTC, the zero time on error.
ZeroTime == "0001-01-01T00:00:00Z"
TimeTable == ("2020-01-01T00:00:00Z" :> "2020-01-01T00:00:00Z")
             @@ ("2020-01-01T01:00:00+01:00" :> "2020-01-01T00:00:00Z")
ParseTime(s) == IF s \in DOMAIN TimeTable THEN TimeTable[s] ELSE ZeroTime

\* element.MemberTypeValues
MemberTypeValues == ("node" :> 0) @@ ("way" :> 1) @@ ("relation" :> 2)

A(n, v) == <<n, v>>

-----------------------------------------------------------------------------
(* Records *)

EmptyMap == [k \in {} |-> ""]
MapPut(m, k, v) == (k :> v) @@ m

ZeroNode == [Id |-> 0, Lat |-> 0, Long |-> 0, Tags |-> 0, Metadata |-> <<>>]
ZeroWay == [Id |-> 0, Refs |-> <<>>, Tags |-> 0, Metadata |-> <<>>]
ZeroRelation == [Id |-> 0, Members |-> <<>>, Tags |-> 0, Metadata |-> <<>>]
ZeroMember == [Id |-> 0, Type |-> 0, Role |-> ""]
ZeroMetadata == [Version |-> 0, UserId |-> 0, UserName |-> "", Changeset |-> 0,
                 Timestamp |-> ZeroTime]
ZeroDiffElem == [Add |-> FALSE, Mod |-> FALSE, Del |-> FALSE,
                 Node |-> 0, Way |-> 0, Rel |-> 0]

\* setElemMetadata: a fresh Metadata filled from the attributes, in order.
RECURSIVE MetadataAttrs(_, _)
MetadataAttrs(m, attrs) ==
    IF attrs = <<>> THEN m
    ELSE LET n == Head(attrs)[1]
             v == Head(attrs)[2]
             m2 == CASE n = "version" -> [m EXCEPT !.Version = ParseInt(v).val]
                     [] n = "uid" -> [m EXCEPT !.UserId = ParseInt(v).val]
                     [] n = "user" -> [m EXCEPT !.UserName = v]
                     [] n = "changeset" -> [m EXCEPT !.Changeset = ParseInt(v).val]
                     [] n = "timestamp" -> [m EXCEPT !.Timestamp = ParseTime(v)]
                     [] OTHER -> m
         IN MetadataAttrs(m2, Tail(attrs))

setElemMetadata(attrs, elem) ==
    [elem EXCEPT !.Metadata = <<MetadataAttrs(ZeroMetadata, attrs)>>]

\* case "node": the loop over tok.Attr
RECURSIVE NodeAttrs(_, _)
NodeAttrs(n, attrs) ==
    IF attrs = <<>> THEN n
    ELSE LET a == Head(attrs)[1]
             v == Head(attrs)[2]
             n2 == CASE a = "id" -> [n EXCEPT !.Id = ParseInt(v).val]
                     [] a = "lat" -> [n EXCEPT !.Lat = ParseFloat(v).val]
                     [] a = "lon" -> [n EXCEPT !.Long = ParseFloat(v).val]
                     [] OTHER -> n
         IN NodeAttrs(n2, Tail(attrs))

\* case "way", case "relation": the loop over tok.Attr
RECURSIVE IdAttrs(_, _)
IdAttrs(e, attrs) ==
    IF attrs = <<>> THEN e
    ELSE LET e2 == IF Head(attrs)[1] = "id"
                   THEN [e EXCEPT !.Id = ParseInt(Head(attrs)[2]).val]
                   ELSE e
         IN IdAttrs(e2, Tail(attrs))

\* case "nd": every ref attribute appends one reference
RECURSIVE NdAttrs(_, _)
NdAttrs(refs, attrs) ==
    IF attrs = <<>> THEN refs
    ELSE LET r2 == IF Head(attrs)[1] = "ref"
                   THEN Append(refs, ParseInt(Head(attrs)[2]).val)
                   ELSE refs
         IN NdAttrs(r2, Tail(attrs))

\* case "member": the member built from the attributes, or <<>> when the
\* loop leaves by continue NextToken
RECURSIVE MemberAttrs(_, _)
MemberAttrs(m, attrs) ==
    IF attrs = <<>> THEN <<m>>
    ELSE LET a == Head(attrs)[1]
             v == Head(attrs)[2]
         IN CASE a = "type" ->
                   IF v \in DOMAIN MemberTypeValues
                   THEN MemberAttrs([m EXCEPT !.Type = MemberTypeValues[v]], Tail(attrs))
                   ELSE <<>>
              [] a = "role" -> MemberAttrs([m EXCEPT !.Role = v], Tail(attrs))
              [] a = "ref" ->
                   IF ParseInt(v).ok
                   THEN MemberAttrs([m EXCEPT !.Id = ParseInt(v).val], Tail(attrs))
                   ELSE <<>>
              [] OTHER -> MemberAttrs(m, Tail(attrs))

\* case "tag": k and v, each the last attribute of that name, "" when absent
RECURSIVE TagAttrs(_, _)
TagAttrs(kv, attrs) ==
    IF attrs = <<>> THEN kv
    ELSE LET a == Head(attrs)[1]
             v == Head(attrs)[2]
             kv2 == IF a = "k" THEN <<v, kv[2]>>
                    ELSE IF a = "v" THEN <<kv[1], v>>
                    ELSE kv
         IN TagAttrs(kv2, Tail(attrs))

-----------------------------------------------------------------------------
(* The documents read: start tokens by element name, and the nesting tried *)

NodeAttrLists == { <<A("id", "1"), A("lat", "1.0"), A("lon", "2.5"), A("version", "2")>>,
                   <<A("lat", "x")>> }
WayAttrLists == { <<A("id", "1")>>,
                  <<A("id", "x"), A("timestamp", "2020-01-01T01:00:00+01:00")>> }
RelAttrLists == { <<A("id", "+2")>>, <<A("id", "99999999999999999999")>> }
NdAttrLists == { <<A("ref", "1")>>, <<A("ref", "x")>> }
MemberAttrLists == { <<A("type", "way"), A("ref", "1"), A("role", "outer")>>,
                     <<A("ref", "2"), A("type", "relation")>>,
                     <<A("type", "bogus"), A("ref", "5")>>,
                     <<A("type", "node"), A("ref", "x")>> }
TagAttrLists == { <<A("k", "amenity"), A("v", "cafe")>>,
                  <<A("k", "amenity"), A("v", "bar")>> }

\* the attributes of a node met outside a section, and of an nd or a tag met
\* outside a way or an element
StrayNode == <<A("id", "5")>>
StrayNd == <<A("ref", "2")>>
StrayTag == <<A("k", "name"), A("v", "cafe")>>

\* The osmChange schema: the children an element may have ("" is the document).
SchemaChild(parent) ==
    CASE parent = "" -> {"osmChange"}
      [] parent = "osmChange" -> Sections \cup {"bounds"}
      [] parent \in Sections -> Elements
      [] parent = "node" -> {"tag"}
      [] parent = "way" -> {"nd", "tag"}
      [] parent = "relation" -> {"member", "tag"}
      [] OTHER -> {}

\* The children tried: the schema's, and well-formed markup that leaves it.
Offered(parent) ==
    SchemaChild(parent) \cup
    (CASE parent = "osmChange" -> {"node", "osmChange"}
       [] parent \in Sections -> {"tag", "nd"}
       [] OTHER -> {})

Parent == IF stack = <<>> THEN "" ELSE stack[Len(stack)].name

\* xml.Decoder.Token returning a StartElement: the element is pushed.
Push(name, attr) ==
    /\ pc = "token"
    /\ ntok < MaxTokens
    /\ Len(stack) < MaxDepth
    /\ name \in Offered(Parent)
    /\ ntok' = ntok + 1
    /\ stack' = (IF stack = <<>> THEN stack
                 ELSE [stack EXCEPT ![Len(stack)].kids =
                          Append(@, [name |-> name, attr |-> attr])])
                \o <<[name |-> name, attr |-> attr, kids |-> <<>>]>>
    /\ schemaOK' = (schemaOK /\ name \in SchemaChild(Parent))
    /\ UNCHANGED docEnded

\* xml.Decoder.Token returning the EndElement of the innermost open element.
Pop(name) ==
    /\ pc = "token"
    /\ ntok < MaxTokens
    /\ stack # <<>>
    /\ stack[Len(stack)].name = name
    /\ ntok' = ntok + 1
    /\ stack' = SubSeq(stack, 1, Len(stack) - 1)
    /\ docEnded' = (Len(stack) = 1)
    /\ UNCHANGED schemaOK

-----------------------------------------------------------------------------
(* parse() *)

chanVars == <<pendElem, pendErr, elemsClosed, errcClosed, recvd, errs,
              drainElems, drainErr>>
ctxVars == <<add, mod, del>>
heapVars == <<nodes, ways, rels, maps>>
refVars == <<tags, node, way, rel>>

OpenFile ==
    /\ pc = "open"
    /\ \E ok \in BOOLEAN :
         IF ok THEN /\ fileOpen' = TRUE
                    /\ pc' = "gzip"
                    /\ UNCHANGED <<pendErr, failure>>
         ELSE /\ failure' = <<"open">>
              /\ pendErr' = failure'
              /\ pc' = "sendErr"
              /\ UNCHANGED fileOpen
    /\ UNCHANGED <<inputEnded, filterVars>>
    /\ UNCHANGED <<metadata, readerOpen, stack, ntok, ctxVars, refVars, heapVars,
                   pendElem, elemsClosed, errcClosed, recvd, errs, drainElems,
                   drainErr, closedDoc, schemaOK, docEnded>>

NewReader ==
    /\ pc = "gzip"
    /\ \E ok \in BOOLEAN :
         IF ok THEN /\ readerOpen' = TRUE
                    /\ pc' = "token"
                    /\ UNCHANGED <<pendErr, failure>>
         ELSE /\ failure' = <<"gzip">>
              /\ pendErr' = failure'
              /\ pc' = "sendErr"
              /\ UNCHANGED readerOpen
    /\ UNCHANGED <<inputEnded, filterVars>>
    /\ UNCHANGED <<metadata, fileOpen, stack, ntok, ctxVars, refVars, heapVars,
                   pendElem, elemsClosed, errcClosed, recvd, errs, drainElems,
                   drainErr, closedDoc, schemaOK, docEnded>>

\* the error decoder.Token() returns, at the end of the input or at
\* malformed markup
TokenFailure(end) ==
    IF ~end THEN "XML syntax error"
    ELSE IF stack = <<>> THEN "EOF" ELSE "unexpected EOF"

\* The input may end at any token; the documents tried are malformed inside
\* a way only.
FailuresTried == IF Parent = "way" THEN BOOLEAN ELSE {TRUE}

\* TokenError with the error swallowed: return without errc <- err
TokenErrorSilent ==
    /\ pc = "token"
    /\ \E end \in FailuresTried :
         /\ inputEnded' = end
         /\ failure' = <<TokenFailure(end)>>
    /\ pc' = "ret"
    /\ UNCHANGED filterVars
    /\ UNCHANGED <<metadata, fileOpen, readerOpen, stack, ntok, ctxVars, refVars,
                   heapVars, pendElem, pendErr, elemsClosed, errcClosed, recvd, errs,
                   drainElems, drainErr, closedDoc, schemaOK, docEnded>>

\* TokenError with the end of the input taken for a normal end: return
\* without errc <- err when the input has ended
TokenErrorCleanAtEOF ==
    /\ pc = "token"
    /\ \E end \in FailuresTried :
         /\ inputEnded' = end
         /\ failure' = <<TokenFailure(end)>>
         /\ IF end THEN pc' = "ret" /\ UNCHANGED pendErr
            ELSE pc' = "sendErr" /\ pendErr' = failure'
    /\ UNCHANGED filterVars
    /\ UNCHANGED <<metadata, fileOpen, readerOpen, stack, ntok, ctxVars, refVars,
                   heapVars, pendElem, elemsClosed, errcClosed, recvd, errs,
                   drainElems, drainErr, closedDoc, schemaOK, docEnded>>

\* decoder.Token() fails, at any token: at the end of the input with io.EOF
\* when no element is open and with the syntax error "unexpected EOF" when
\* one is, at malformed markup with another syntax error
TokenError ==
    /\ pc = "token"
    /\ \E end \in FailuresTried :
         /\ inputEnded' = end
         /\ failure' = <<TokenFailure(end)>>
    /\ pendErr' = failure'
    /\ pc' = "sendErr"
    /\ UNCHANGED filterVars
    /\ UNCHANGED <<metadata, fileOpen, readerOpen, stack, ntok, ctxVars, refVars,
                   heapVars, pendElem, elemsClosed, errcClosed, recvd, errs,
                   drainElems, drainErr, closedDoc, schemaOK, docEnded>>

\* a token that is neither StartElement nor EndElement (ProcInst, CharData,
\* Comment, Directive); the documents tried have one at most, in the prolog
OtherToken ==
    /\ pc = "token"
    /\ ntok = 0
    /\ ntok < MaxTokens
    /\ ntok' = ntok + 1
    /\ UNCHANGED <<failure, inputEnded, filterVars>>
    /\ UNCHANGED <<pc, metadata, fileOpen, readerOpen, stack, ctxVars, refVars,
                   heapVars, chanVars, closedDoc, schemaOK, docEnded>>

\* StartSection with case "modify" leaving add as it was
StartSectionKeepsAdd ==
    /\ \E name \in Sections :
         /\ Push(name, <<>>)
         /\ add' = ((name = "create") \/ (name = "modify" /\ add))
         /\ mod' = (name = "modify")
         /\ del' = (name = "delete")
    /\ UNCHANGED <<failure, inputEnded, filterVars>>
    /\ UNCHANGED <<pc, metadata, fileOpen, readerOpen, refVars, heapVars, chanVars,
                   closedDoc>>


StartSection ==
    /\ \E name \in Sections :
         /\ Push(name, <<>>)
         /\ add' = (name = "create")
         /\ mod' = (name = "modify")
         /\ del' = (name = "delete")
    /\ UNCHANGED <<failure, inputEnded, filterVars>>
    /\ UNCHANGED <<pc, metadata, fileOpen, readerOpen, refVars, heapVars, chanVars,
                   closedDoc>>

WithMetadata(attr, elem) == IF metadata THEN setElemMetadata(attr, elem) ELSE elem

StartNode ==
    /\ \E attr \in (IF Parent \in Sections THEN NodeAttrLists ELSE {StrayNode}) :
         /\ Push("node", attr)
         /\ nodes' = [nodes EXCEPT ![node] = WithMetadata(attr, NodeAttrs(@, attr))]
    /\ UNCHANGED <<failure, inputEnded, filterVars>>
    /\ UNCHANGED <<pc, metadata, fileOpen, readerOpen, ctxVars, refVars, ways, rels,
                   maps, chanVars, closedDoc>>

StartWay ==
    /\ \E attr \in WayAttrLists :
         /\ Push("way", attr)
         /\ ways' = [ways EXCEPT ![way] = WithMetadata(attr, IdAttrs(@, attr))]
    /\ UNCHANGED <<failure, inputEnded, filterVars>>
    /\ UNCHANGED <<pc, metadata, fileOpen, readerOpen, ctxVars, refVars, nodes, rels,
                   maps, chanVars, closedDoc>>

StartRelation ==
    /\ \E attr \in RelAttrLists :
         /\ Push("relation", attr)
         /\ rels' = [rels EXCEPT ![rel] = WithMetadata(attr, IdAttrs(@, attr))]
    /\ UNCHANGED <<failure, inputEnded, filterVars>>
    /\ UNCHANGED <<pc, metadata, fileOpen, readerOpen, ctxVars, refVars, nodes, ways,
                   maps, chanVars, closedDoc>>

StartNd ==
    /\ \E attr \in (IF Parent = "way" THEN NdAttrLists ELSE {StrayNd}) :
         /\ Push("nd", attr)
         /\ ways' = [ways EXCEPT ![way].Refs = NdAttrs(@, attr)]
    /\ UNCHANGED <<failure, inputEnded, filterVars>>
    /\ UNCHANGED <<pc, metadata, fileOpen, readerOpen, ctxVars, refVars, nodes, rels,
                   maps, chanVars, closedDoc>>

\* StartMember with break in place of continue NextToken: the member is
\* appended as far as it was filled
StartMemberAppendsAnyway ==
    /\ \E attr \in MemberAttrLists :
         /\ Push("member", attr)
         /\ LET m == MemberAttrs(ZeroMember, attr)
            IN rels' = [rels EXCEPT ![rel].Members =
                           Append(@, IF m = <<>> THEN ZeroMember ELSE m[1])]
    /\ UNCHANGED <<failure, inputEnded, filterVars>>
    /\ UNCHANGED <<pc, metadata, fileOpen, readerOpen, ctxVars, refVars, nodes, ways,
                   maps, chanVars, closedDoc>>

StartMember ==
    /\ \E attr \in MemberAttrLists :
         /\ Push("member", attr)
         /\ LET m == MemberAttrs(ZeroMember, attr)
            IN rels' = IF m = <<>> THEN rels
                       ELSE [rels EXCEPT ![rel].Members = Append(@, m[1])]
    /\ UNCHANGED <<failure, inputEnded, filterVars>>
    /\ UNCHANGED <<pc, metadata, fileOpen, readerOpen, ctxVars, refVars, nodes, ways,
                   maps, chanVars, closedDoc>>

StartTag ==
    /\ \E attr \in (IF Parent \in Elements THEN TagAttrLists ELSE {StrayTag}) :
         /\ Push("tag", attr)
         /\ LET kv == TagAttrs(<<"", "">>, attr)
            IN maps' = [maps EXCEPT ![tags] = MapPut(@, kv[1], kv[2])]
    /\ UNCHANGED <<failure, inputEnded, filterVars>>
    /\ UNCHANGED <<pc, metadata, fileOpen, readerOpen, ctxVars, refVars, nodes, ways,
                   rels, chanVars, closedDoc>>

\* case "osmChange" (pass) and default (log.Warn)
StartOther ==
    /\ \E name \in {"osmChange", "bounds"} : Push(name, <<>>)
    /\ UNCHANGED <<failure, inputEnded, filterVars>>
    /\ UNCHANGED <<pc, metadata, fileOpen, readerOpen, ctxVars, refVars, heapVars,
                   chanVars, closedDoc>>

\* len(tags) > 0
HasTags == DOMAIN maps[tags] # {}

\* the tag map is attached when it is not empty
AttachTags(elem) == IF HasTags THEN [elem EXCEPT !.Tags = tags] ELSE elem

\* Emit on a buffered channel: the send does not block
EmitBuffered(e) ==
    /\ pendElem' = <<[e EXCEPT !.Add = add, !.Del = del, !.Mod = mod]>>
    /\ IF HasTags
       THEN /\ maps' = Append(maps, EmptyMap)
            /\ tags' = Len(maps) + 1
       ELSE UNCHANGED <<maps, tags>>
    /\ UNCHANGED pc

\* Emit without tags = make(map[string]string)
EmitKeepsTags(e) ==
    /\ pendElem' = <<[e EXCEPT !.Add = add, !.Del = del, !.Mod = mod]>>
    /\ UNCHANGED <<maps, tags>>
    /\ pc' = "sendElem"

\* if newElem { ... }: the flags are copied, a non-empty tag map is replaced
\* by a new one, and parse() blocks in elems <- e
Emit(e) ==
    /\ pendElem' = <<[e EXCEPT !.Add = add, !.Del = del, !.Mod = mod]>>
    /\ IF HasTags
       THEN /\ maps' = Append(maps, EmptyMap)
            /\ tags' = Len(maps) + 1
       ELSE UNCHANGED <<maps, tags>>
    /\ pc' = "sendElem"

\* EndNode with e.Node = node placed after node = &element.Node{}
EndNodeAfterReset ==
    /\ Pop("node")
    /\ nodes' = Append([nodes EXCEPT ![node] = AttachTags(@)], ZeroNode)
    /\ node' = Len(nodes) + 1
    /\ Emit([ZeroDiffElem EXCEPT !.Node = Len(nodes) + 1])
    /\ closedDoc' = Append(closedDoc, stack[Len(stack)])
    /\ UNCHANGED <<failure, inputEnded, filterVars>>
    /\ UNCHANGED <<metadata, fileOpen, readerOpen, ctxVars, way, rel, ways, rels,
                   pendErr, elemsClosed, errcClosed, recvd, errs, drainElems,
                   drainErr>>

\* EndNode without node = &element.Node{}: the slot is used again
EndNodeKeepsScratch ==
    /\ Pop("node")
    /\ nodes' = [nodes EXCEPT ![node] = AttachTags(@)]
    /\ node' = node
    /\ Emit([ZeroDiffElem EXCEPT !.Node = node])
    /\ closedDoc' = Append(closedDoc, stack[Len(stack)])
    /\ UNCHANGED <<failure, inputEnded, filterVars>>
    /\ UNCHANGED <<metadata, fileOpen, readerOpen, ctxVars, way, rel, ways, rels,
                   pendErr, elemsClosed, errcClosed, recvd, errs, drainElems,
                   drainErr>>

EndNode ==
    /\ Pop("node")
    /\ nodes' = Append([nodes EXCEPT ![node] = AttachTags(@)], ZeroNode)
    /\ node' = Len(nodes) + 1
    /\ Emit([ZeroDiffElem EXCEPT !.Node = node])
    /\ closedDoc' = Append(closedDoc, stack[Len(stack)])
    /\ UNCHANGED <<failure, inputEnded, filterVars>>
    /\ UNCHANGED <<metadata, fileOpen, readerOpen, ctxVars, way, rel, ways, rels,
                   pendErr, elemsClosed, errcClosed, recvd, errs, drainElems,
                   drainErr>>

\* EndWay without newElem = true: the way is dropped
EndWayNoNewElem ==
    /\ Pop("way")
    /\ ways' = Append([ways EXCEPT ![way] = AttachTags(@)], ZeroWay)
    /\ way' = Len(ways) + 1
    /\ closedDoc' = Append(closedDoc, stack[Len(stack)])
    /\ UNCHANGED <<failure, inputEnded, filterVars>>
    /\ UNCHANGED <<pc, metadata, fileOpen, readerOpen, ctxVars, tags, node, rel,
                   nodes, rels, maps, chanVars>>


EndWay ==
    /\ Pop("way")
    /\ ways' = Append([ways EXCEPT ![way] = AttachTags(@)], ZeroWay)
    /\ way' = Len(ways) + 1
    /\ Emit([ZeroDiffElem EXCEPT !.Way = way])
    /\ closedDoc' = Append(closedDoc, stack[Len(stack)])
    /\ UNCHANGED <<failure, inputEnded, filterVars>>
    /\ UNCHANGED <<metadata, fileOpen, readerOpen, ctxVars, node, rel, nodes, rels,
                   pendErr, elemsClosed, errcClosed, recvd, errs, drainElems,
                   drainErr>>

\* EndRelation without rel = &element.Relation{}: the slot is used again
EndRelationKeepsScratch ==
    /\ Pop("relation")
    /\ rels' = [rels EXCEPT ![rel] = AttachTags(@)]
    /\ rel' = rel
    /\ Emit([ZeroDiffElem EXCEPT !.Rel = rel])
    /\ closedDoc' = Append(closedDoc, stack[Len(stack)])
    /\ UNCHANGED <<failure, inputEnded, filterVars>>
    /\ UNCHANGED <<metadata, fileOpen, readerOpen, ctxVars, node, way, nodes, ways,
                   pendErr, elemsClosed, errcClosed, recvd, errs, drainElems,
                   drainErr>>

EndRelation ==
    /\ Pop("relation")
    /\ rels' = Append([rels EXCEPT ![rel] = AttachTags(@)], ZeroRelation)
    /\ rel' = Len(rels) + 1
    /\ Emit([ZeroDiffElem EXCEPT !.Rel = rel])
    /\ closedDoc' = Append(closedDoc, stack[Len(stack)])
    /\ UNCHANGED <<failure, inputEnded, filterVars>>
    /\ UNCHANGED <<metadata, fileOpen, readerOpen, ctxVars, node, way, nodes, ways,
                   pendErr, elemsClosed, errcClosed, recvd, errs, drainElems,
                   drainErr>>

\* case "osmChange": return.  The rest of the input is not read: it may end
\* here or not.
EndOsmChange ==
    /\ Pop("osmChange")
    /\ pc' = "ret"
    /\ inputEnded' \in BOOLEAN
    /\ UNCHANGED <<failure, filterVars>>
    /\ UNCHANGED <<metadata, fileOpen, readerOpen, ctxVars, refVars, heapVars,
                   chanVars, closedDoc>>

\* EndOther with the operation context cleared on leaving a section
EndOtherResetsContext ==
    /\ \E name \in Sections \cup {"nd", "member", "tag", "bounds"} :
         /\ Pop(name)
         /\ IF name \in Sections
            THEN add' = FALSE /\ mod' = FALSE /\ del' = FALSE
            ELSE UNCHANGED ctxVars
    /\ UNCHANGED <<failure, inputEnded, filterVars>>
    /\ UNCHANGED <<pc, metadata, fileOpen, readerOpen, refVars, heapVars,
                   chanVars, closedDoc>>

\* any other end element: newElem stays false
EndOther ==
    /\ \E name \in Sections \cup {"nd", "member", "tag", "bounds"} : Pop(name)
    /\ UNCHANGED <<failure, inputEnded, filterVars>>
    /\ UNCHANGED <<pc, metadata, fileOpen, readerOpen, ctxVars, refVars, heapVars,
                   chanVars, closedDoc>>

\* Return without the deferred close(elems)
ReturnLeavesElemsOpen ==
    /\ pc = "ret"
    /\ fileOpen' = FALSE
    /\ errcClosed' = TRUE
    /\ pc' = "done"
    /\ UNCHANGED <<failure, inputEnded, filterVars>>
    /\ UNCHANGED <<metadata, readerOpen, stack, ntok, ctxVars, refVars, heapVars,
                   pendElem, pendErr, elemsClosed, recvd, errs, drainElems, drainErr,
                   closedDoc, schemaOK, docEnded>>

\* the deferred calls, last first: file.Close(), close(errc), close(elems)
Return ==
    /\ pc = "ret"
    /\ fileOpen' = FALSE
    /\ errcClosed' = TRUE
    /\ elemsClosed' = TRUE
    /\ pc' = "done"
    /\ UNCHANGED <<failure, inputEnded, filterVars>>
    /\ UNCHANGED <<metadata, readerOpen, stack, ntok, ctxVars, refVars, heapVars,
                   pendElem, pendErr, recvd, errs, drainElems, drainErr, closedDoc,
                   schemaOK, docEnded>>

-----------------------------------------------------------------------------
(* The consumer of the two channels *)

\* the consumer receives from elems; parse() goes on to the next token
RecvElem ==
    /\ pc = "sendElem"
    /\ drainElems
    /\ recvd' = Append(recvd, pendElem[1])
    /\ pendElem' = <<>>
    /\ pc' = "token"
    /\ UNCHANGED <<failure, inputEnded, filterVars>>
    /\ UNCHANGED <<metadata, fileOpen, readerOpen, stack, ntok, ctxVars, refVars,
                   heapVars, pendErr, elemsClosed, errcClosed, errs, drainElems,
                   drainErr, closedDoc, schemaOK, docEnded>>

\* RecvErr with parse() going on after errc <- err instead of returning
RecvErrNoReturn ==
    /\ pc = "sendErr"
    /\ drainErr
    /\ errs' = Append(errs, pendErr[1])
    /\ pendErr' = <<>>
    /\ pc' = "token"
    /\ UNCHANGED <<failure, inputEnded, filterVars>>
    /\ UNCHANGED <<metadata, fileOpen, readerOpen, stack, ntok, ctxVars, refVars,
                   heapVars, pendElem, elemsClosed, errcClosed, recvd, drainElems,
                   drainErr, closedDoc, schemaOK, docEnded>>

\* the consumer receives from errc; parse() returns
RecvErr ==
    /\ pc = "sendErr"
    /\ drainErr
    /\ errs' = Append(errs, pendErr[1])
    /\ pendErr' = <<>>
    /\ pc' = "ret"
    /\ UNCHANGED <<failure, inputEnded, filterVars>>
    /\ UNCHANGED <<metadata, fileOpen, readerOpen, stack, ntok, ctxVars, refVars,
                   heapVars, pendElem, elemsClosed, errcClosed, recvd, drainElems,
                   drainErr, closedDoc, schemaOK, docEnded>>

\* the consumer stops receiving from elems (what it did before the send
\* blocks makes no difference to parse())
StopElems ==
    /\ pc = "sendElem"
    /\ drainElems
    /\ drainElems' = FALSE
    /\ UNCHANGED <<failure, inputEnded, filterVars>>
    /\ UNCHANGED <<pc, metadata, fileOpen, readerOpen, stack, ntok, ctxVars, refVars,
                   heapVars, pendElem, pendErr, elemsClosed, errcClosed, recvd, errs,
                   drainErr, closedDoc, schemaOK, docEnded>>

\* the consumer does not receive from errc
StopErr ==
    /\ pc = "sendErr"
    /\ drainErr
    /\ drainErr' = FALSE
    /\ UNCHANGED <<failure, inputEnded, filterVars>>
    /\ UNCHANGED <<pc, metadata, fileOpen, readerOpen, stack, ntok, ctxVars, refVars,
                   heapVars, pendElem, pendErr, elemsClosed, errcClosed, recvd, errs,
                   drainElems, closedDoc, schemaOK, docEnded>>

-----------------------------------------------------------------------------

\* Parse / ParseFull: the channels are made and parse() is started
DecoderInit ==
    /\ pc = "open"
    /\ metadata \in BOOLEAN
    /\ fileOpen = FALSE
    /\ readerOpen = FALSE
    /\ stack = <<>>
    /\ ntok = 0
    /\ add = FALSE /\ mod = FALSE /\ del = FALSE
    /\ maps = <<EmptyMap>> /\ tags = 1
    /\ nodes = <<ZeroNode>> /\ node = 1
    /\ ways = <<ZeroWay>> /\ way = 1
    /\ rels = <<ZeroRelation>> /\ rel = 1
    /\ pendElem = <<>> /\ pendErr = <<>>
    /\ elemsClosed = FALSE /\ errcClosed = FALSE
    /\ recvd = <<>> /\ errs = <<>>
    /\ drainElems = TRUE /\ drainErr = TRUE
    /\ closedDoc = <<>>
    /\ schemaOK = TRUE
    /\ docEnded = FALSE
    /\ failure = <<>>
    /\ inputEnded = FALSE

\* no second call
OtherCallIdle ==
    /\ gpc = "idle"
    /\ gtags = EmptyMap
    /\ gin = EmptyMap
    /\ gtodo = {}
    /\ gfound = FALSE
    /\ gret = <<>>

FilterIdle ==
    /\ fpc = "idle"
    /\ fkind = "tag"
    /\ fmappings = EmptyMap
    /\ fextra = {}
    /\ ftags = EmptyMap
    /\ fin = EmptyMap
    /\ ftodo = {}
    /\ foundMapping = FALSE
    /\ fwrapped = <<>>
    /\ fret = <<>>
    /\ fprev = <<>>
    /\ OtherCallIdle

Init == DecoderInit /\ FilterIdle

Next ==
    \/ OpenFile \/ NewReader \/ TokenError \/ OtherToken
    \/ StartSection \/ StartNode \/ StartWay \/ StartRelation
    \/ StartNd \/ StartMember \/ StartTag \/ StartOther
    \/ EndNode \/ EndWay \/ EndRelation \/ EndOsmChange \/ EndOther
    \/ Return \/ RecvElem \/ RecvErr \/ StopElems \/ StopErr

vars == <<decoderVars, filterVars>>

Spec == Init /\ [][Next]_vars

\* The steps parse() takes alone.  The goroutine is scheduled while it can
\* run, and a consumer that is receiving takes what is offered.
DecoderStep ==
    \/ OpenFile \/ NewReader \/ TokenError \/ OtherToken
    \/ StartSection \/ StartNode \/ StartWay \/ StartRelation
    \/ StartNd \/ StartMember \/ StartTag \/ StartOther
    \/ EndNode \/ EndWay \/ EndRelation \/ EndOsmChange \/ EndOther
    \/ Return

LiveSpec ==
    /\ Init /\ [][Next]_vars
    /\ WF_vars(DecoderStep) /\ WF_vars(RecvElem) /\ WF_vars(RecvErr)

-----------------------------------------------------------------------------
(* mapping/filter.go: TagFilter.Filter and RelationTagFilter.Filter *)

\* The tag maps, rule tables and always-retained sets tried.
TagValues ==
    ("shop" :> {"bakery", "butcher"}) @@ ("name" :> {"Joe"}) @@ ("foo" :> {"bar"})
    @@ ("type" :> {"multipolygon", "boundary", "land_area", "route"})
    @@ ("" :> {""})
RuleKeys == {"shop", "type"}
RuleValues == {"__any__", "bakery"}
ExtraKeys == {"name", "shop"}

TagMaps ==
    {m \in UNION {[d -> UNION {TagValues[k] : k \in d}] : d \in SUBSET DOMAIN TagValues} :
        \A k \in DOMAIN m : m[k] \in TagValues[k]}
RuleTables ==
    UNION {[d -> SUBSET RuleValues] : d \in SUBSET RuleKeys}

\* A call of f.Filter(tags) on a constructed filter.  Mapping.RelationTagFilter
\* puts "type" into extraTags.
FilterInit ==
    /\ DecoderInit
    /\ metadata = FALSE
    /\ fpc = "call"
    /\ fkind \in {"tag", "relation"}
    /\ fmappings \in RuleTables
    /\ \E x \in SUBSET ExtraKeys :
         fextra = IF fkind = "relation" THEN x \cup {"type"} ELSE x
    /\ ftags \in TagMaps
    /\ fin = ftags
    /\ ftodo = {}
    /\ foundMapping = FALSE
    /\ fwrapped = <<>>
    /\ fret = <<>>
    /\ fprev = <<>>
    /\ OtherCallIdle

MapDelete(m, k) == [x \in DOMAIN m \ {k} |-> m[x]]

\* RelationTagFilter.Filter up to the call of the wrapped filter
RelationFilterCall ==
    /\ fpc = "call"
    /\ fkind = "relation"
    /\ IF "type" \in DOMAIN ftags
          /\ ftags["type"] \in {"multipolygon", "boundary", "land_area"}
       THEN /\ fpc' = "range"
            /\ ftodo' = DOMAIN ftags
            /\ UNCHANGED fret
       ELSE /\ fpc' = "done"
            /\ fret' = <<FALSE>>
            /\ UNCHANGED ftodo
    /\ foundMapping' = FALSE
    /\ UNCHANGED <<fkind, fmappings, fextra, fprev, ftags, fin, fwrapped>>
    /\ UNCHANGED <<decoderVars, otherCallVars>>

\* TagFilter.Filter called directly: foundMapping := false, the range begins
TagFilterCall ==
    /\ fpc = "call"
    /\ fkind = "tag"
    /\ fpc' = "range"
    /\ ftodo' = DOMAIN ftags
    /\ foundMapping' = FALSE
    /\ UNCHANGED <<fkind, fmappings, fextra, fprev, ftags, fin, fwrapped, fret>>
    /\ UNCHANGED <<decoderVars, otherCallVars>>

\* FilterKey with an always-retained key counted as a match
FilterKeyExtraFound(k, v) ==
    IF k \in DOMAIN fmappings
    THEN IF "__any__" \in fmappings[k] THEN <<TRUE, TRUE>>
         ELSE IF v \in fmappings[k] THEN <<TRUE, TRUE>>
         ELSE IF k \notin fextra THEN <<FALSE, FALSE>>
         ELSE <<TRUE, TRUE>>
    ELSE IF k \notin fextra THEN <<FALSE, FALSE>>
    ELSE <<TRUE, TRUE>>

\* FilterKey with a matching key deleted unless it is always retained
FilterKeyDropsMatched(k, v) ==
    IF k \in DOMAIN fmappings
    THEN IF "__any__" \in fmappings[k] THEN <<TRUE, k \in fextra>>
         ELSE IF v \in fmappings[k] THEN <<TRUE, k \in fextra>>
         ELSE IF k \notin fextra THEN <<FALSE, FALSE>>
         ELSE <<FALSE, TRUE>>
    ELSE IF k \notin fextra THEN <<FALSE, FALSE>>
    ELSE <<FALSE, TRUE>>

\* the body of the range loop for key k with value v: <<found, keep>>
FilterKey(k, v) ==
    IF k \in DOMAIN fmappings
    THEN IF "__any__" \in fmappings[k] THEN <<TRUE, TRUE>>
         ELSE IF v \in fmappings[k] THEN <<TRUE, TRUE>>
         ELSE IF k \notin fextra THEN <<FALSE, FALSE>>
         ELSE <<FALSE, TRUE>>
    ELSE IF k \notin fextra THEN <<FALSE, FALSE>>
    ELSE <<FALSE, TRUE>>

\* FilterStep leaving the loop at the first key that matches a rule
FilterStepBreakOnMatch ==
    /\ fpc = "range"
    /\ \E k \in ftodo :
         LET r == FilterKey(k, ftags[k])
         IN /\ foundMapping' = (foundMapping \/ r[1])
            /\ ftags' = IF r[2] THEN ftags ELSE MapDelete(ftags, k)
            /\ ftodo' = IF r[1] THEN {} ELSE ftodo \ {k}
    /\ UNCHANGED <<fpc, fkind, fmappings, fextra, fprev, fin, fwrapped, fret>>
    /\ UNCHANGED <<decoderVars, otherCallVars>>

\* one iteration of for k, v := range tags, the keys in any order
FilterStep ==
    /\ fpc = "range"
    /\ \E k \in ftodo :
         LET r == FilterKey(k, ftags[k])
         IN /\ foundMapping' = (foundMapping \/ r[1])
            /\ ftags' = IF r[2] THEN ftags ELSE MapDelete(ftags, k)
            /\ ftodo' = ftodo \ {k}
    /\ UNCHANGED <<fpc, fkind, fmappings, fextra, fprev, fin, fwrapped, fret>>
    /\ UNCHANGED <<decoderVars, otherCallVars>>

\* TagFilter.Filter returns foundMapping
FilterReturn ==
    /\ fpc = "range"
    /\ ftodo = {}
    /\ fwrapped' = <<foundMapping>>
    /\ IF fkind = "tag"
       THEN /\ fret' = <<foundMapping>>
            /\ fpc' = "done"
       ELSE /\ fpc' = "wrapped"
            /\ UNCHANGED fret
    /\ UNCHANGED <<fkind, fmappings, fextra, fprev, ftags, fin, ftodo, foundMapping>>
    /\ UNCHANGED <<decoderVars, otherCallVars>>

\* RelationFilterReturn handing on what the wrapped filter returned
RelationFilterReturnsWrapped ==
    /\ fpc = "wrapped"
    /\ fret' = fwrapped
    /\ fpc' = "done"
    /\ UNCHANGED <<fkind, fmappings, fextra, fprev, ftags, fin, ftodo, foundMapping,
                   fwrapped>>
    /\ UNCHANGED <<decoderVars, otherCallVars>>

\* RelationTagFilter.Filter after the wrapped filter: return true
RelationFilterReturn ==
    /\ fpc = "wrapped"
    /\ fret' = <<TRUE>>
    /\ fpc' = "done"
    /\ UNCHANGED <<fkind, fmappings, fextra, fprev, ftags, fin, ftodo, foundMapping,
                   fwrapped>>
    /\ UNCHANGED <<decoderVars, otherCallVars>>

\* the caller applies the filter once more, to the tag map the call left
CallAgain ==
    /\ fpc = "done"
    /\ fprev = <<>>
    /\ fprev' = <<[tags |-> ftags, ret |-> fret[1]]>>
    /\ fpc' = "call"
    /\ fwrapped' = <<>>
    /\ fret' = <<>>
    /\ UNCHANGED <<fkind, fmappings, fextra, ftags, fin, ftodo, foundMapping>>
    /\ UNCHANGED <<decoderVars, otherCallVars>>

FilterNext ==
    \/ RelationFilterCall \/ TagFilterCall \/ FilterStep \/ FilterReturn
    \/ RelationFilterReturn \/ CallAgain

FilterSpec == FilterInit /\ [][FilterNext]_vars

-----------------------------------------------------------------------------
(* Two calls of one filter at the same time, each on a tag map of its own *)

ConcurrentValues ==
    ("shop" :> {"bakery", "butcher"}) @@ ("name" :> {"Joe"})
    @@ ("type" :> {"multipolygon", "route"})
ConcurrentTagMaps ==
    {m \in UNION {[d -> UNION {ConcurrentValues[k] : k \in d}] :
                    d \in SUBSET DOMAIN ConcurrentValues} :
        \A k \in DOMAIN m : m[k] \in ConcurrentValues[k]}

ConcurrentInit ==
    /\ DecoderInit
    /\ metadata = FALSE
    /\ fpc = "call"
    /\ fkind \in {"tag", "relation"}
    /\ fmappings \in RuleTables
    /\ \E x \in SUBSET ExtraKeys :
         fextra = IF fkind = "relation" THEN x \cup {"type"} ELSE x
    /\ ftags \in ConcurrentTagMaps
    /\ fin = ftags
    /\ ftodo = {}
    /\ foundMapping = FALSE
    /\ fwrapped = <<>>
    /\ fret = <<>>
    /\ fprev = <<>>
    /\ gpc = "call"
    /\ gtags \in ConcurrentTagMaps
    /\ gin = gtags
    /\ gtodo = {}
    /\ gfound = FALSE
    /\ gret = <<>>

firstCallVars == <<fpc, fprev, ftags, fin, ftodo, foundMapping, fwrapped, fret>>

\* the second call enters Filter: the type check of RelationTagFilter.Filter,
\* then foundMapping := false and the range begins
OtherCall ==
    /\ gpc = "call"
    /\ IF fkind = "relation"
          /\ ~ ("type" \in DOMAIN gtags
                /\ gtags["type"] \in {"multipolygon", "boundary", "land_area"})
       THEN /\ gpc' = "done"
            /\ gret' = <<FALSE>>
            /\ UNCHANGED gtodo
       ELSE /\ gpc' = "range"
            /\ gtodo' = DOMAIN gtags
            /\ UNCHANGED gret
    /\ gfound' = FALSE
    /\ UNCHANGED <<gtags, gin>>
    /\ UNCHANGED <<fkind, fmappings, fextra, firstCallVars, decoderVars>>

\* OtherStep with foundMapping kept in the filter, where both calls write it
OtherStepSharedFound ==
    /\ gpc = "range"
    /\ \E k \in gtodo :
         LET r == FilterKey(k, gtags[k])
         IN /\ gfound' = (gfound \/ r[1])
            /\ foundMapping' = (foundMapping \/ r[1])
            /\ gtags' = IF r[2] THEN gtags ELSE MapDelete(gtags, k)
            /\ gtodo' = gtodo \ {k}
    /\ UNCHANGED <<gpc, gin, gret>>
    /\ UNCHANGED <<fkind, fmappings, fextra, fpc, fprev, ftags, fin, ftodo, fwrapped,
                   fret, decoderVars>>

\* one iteration of the second call's range loop
OtherStep ==
    /\ gpc = "range"
    /\ \E k \in gtodo :
         LET r == FilterKey(k, gtags[k])
         IN /\ gfound' = (gfound \/ r[1])
            /\ gtags' = IF r[2] THEN gtags ELSE MapDelete(gtags, k)
            /\ gtodo' = gtodo \ {k}
    /\ UNCHANGED <<gpc, gin, gret>>
    /\ UNCHANGED <<fkind, fmappings, fextra, firstCallVars, decoderVars>>

\* the second call returns: foundMapping from TagFilter.Filter, true from
\* RelationTagFilter.Filter
OtherReturn ==
    /\ gpc = "range"
    /\ gtodo = {}
    /\ gret' = <<IF fkind = "relation" THEN TRUE ELSE gfound>>
    /\ gpc' = "done"
    /\ UNCHANGED <<gtags, gin, gtodo, gfound>>
    /\ UNCHANGED <<fkind, fmappings, fextra, firstCallVars, decoderVars>>

ConcurrentNext ==
    \/ RelationFilterCall \/ TagFilterCall \/ FilterStep \/ FilterReturn
    \/ RelationFilterReturn \/ OtherCall \/ OtherStep \/ OtherReturn

ConcurrentSpec == ConcurrentInit /\ [][ConcurrentNext]_vars

\* f.Filter(tags) run alone, the keys visited in one fixed order: the tag map
\* left and foundMapping
RECURSIVE RunFilter(_, _, _)
RunFilter(t, todo, found) ==
    IF todo = {} THEN <<t, found>>
    ELSE LET k == CHOOSE x \in todo : TRUE
             r == FilterKey(k, t[k])
         IN RunFilter(IF r[2] THEN t ELSE MapDelete(t, k), todo \ {k}, found \/ r[1])

\* a call of the filter of the given kind run alone: the tag map left and
\* the result
FilterAlone(kind, t) ==
    IF kind = "relation"
    THEN IF "type" \in DOMAIN t /\ t["type"] \in {"multipolygon", "boundary", "land_area"}
         THEN <<RunFilter(t, DOMAIN t, FALSE)[1], TRUE>>
         ELSE <<t, FALSE>>
    ELSE RunFilter(t, DOMAIN t, FALSE)

-----------------------------------------------------------------------------
(* What the claims speak of *)

\* the events sent so far: those received and the one in flight
Emitted == recvd \o pendElem

PayloadKinds(e) == {k \in {"Node", "Way", "Rel"} : e[k] # 0}
OperationFlags(e) == {f \in {"Add", "Mod", "Del"} : e[f]}

KindOf(e) == IF e.Node # 0 THEN "node" ELSE IF e.Way # 0 THEN "way"
             ELSE IF e.Rel # 0 THEN "relation" ELSE "none"
RefOf(e) == IF e.Node # 0 THEN e.Node ELSE IF e.Way # 0 THEN e.Way ELSE e.Rel
FeatureOf(e) == IF e.Node # 0 THEN nodes[e.Node]
                ELSE IF e.Way # 0 THEN ways[e.Way] ELSE rels[e.Rel]

\* the value of the last attribute called name, <<>> when there is none
RECURSIVE LastAttr(_, _)
LastAttr(attrs, name) ==
    IF attrs = <<>> THEN <<>>
    ELSE IF attrs[Len(attrs)][1] = name THEN <<attrs[Len(attrs)][2]>>
    ELSE LastAttr(SubSeq(attrs, 1, Len(attrs) - 1), name)

\* the identifier the markup gives element d
DocId(d) == IF LastAttr(d.attr, "id") = <<>> THEN 0
            ELSE ParseInt(LastAttr(d.attr, "id")[1]).val

\* how many elements of the kind of the i-th closed element closed up to it
OrdinalInKind(i) ==
    Cardinality({j \in 1..i : closedDoc[j].name = closedDoc[i].name})

\* the parse ended at an osmChange end marker, no failure
CleanEnd == pc \in {"ret", "done"} /\ failure = <<>>

\* C1: for a valid input file the events sent are as many as the node, way
\* and relation elements closed so far (so no other token sends one), and
\* when the parse has ended at the osmChange end marker the consumer has
\* received one event per closed element.
C1_OneEventPerElement ==
    schemaOK =>
        /\ Len(Emitted) = Len(closedDoc)
        /\ CleanEnd => Len(recvd) = Len(closedDoc)

C1_Witness ==
    /\ schemaOK
    /\ pc = "done"
    /\ failure = <<>>
    /\ Len(recvd) = 1
    /\ closedDoc[1].kids # <<>>

\* C2: for a valid input file every event sent has exactly one of Node, Way,
\* Rel set and exactly one of Add, Mod, Del true.
C2_OnePayloadOneFlag ==
    schemaOK =>
        \A i \in 1..Len(Emitted) :
            /\ Cardinality(PayloadKinds(Emitted[i])) = 1
            /\ Cardinality(OperationFlags(Emitted[i])) = 1

C2_Witness ==
    /\ schemaOK
    /\ Len(recvd) = 2
    /\ recvd[1].Add /\ recvd[1].Way # 0
    /\ recvd[2].Mod /\ recvd[2].Node # 0

\* C3: the events reach the consumer in the order in which their elements
\* close: the i-th event received is the event of the i-th element closed
\* (its kind, its record, its identifier), none twice, none skipped, and
\* after a clean end none is missing.
C3_ReceivedInCloseOrder ==
    /\ Len(recvd) <= Len(closedDoc)
    /\ \A i \in 1..Len(recvd) :
           /\ KindOf(recvd[i]) = closedDoc[i].name
           /\ RefOf(recvd[i]) = OrdinalInKind(i)
           /\ FeatureOf(recvd[i]).Id = DocId(closedDoc[i])
    /\ CleanEnd => Len(recvd) = Len(closedDoc)

C3_Witness ==
    /\ Len(recvd) = 2
    /\ KindOf(recvd[1]) = "relation" /\ FeatureOf(recvd[1]).Id = 2
    /\ KindOf(recvd[2]) = "node" /\ FeatureOf(recvd[2]).Id = 1

\* C4: a fatal failure is reported once: the one value sent on errc is its
\* cause and there is none without a failure; when it occurs no event is in
\* flight and every event sent was of a closed element; after it no event is
\* sent, so the element then open is never emitted.
C4_TerminalErrorOnce ==
    /\ [](/\ Len(failure) <= 1
          /\ errs \o pendErr = failure
          /\ failure # <<>> => pendElem = <<>> /\ Len(recvd) = Len(closedDoc))
    /\ [][failure # <<>> =>
             /\ failure' = failure
             /\ recvd' = recvd
             /\ pendElem' = <<>>
             /\ closedDoc' = closedDoc]_vars

C4_Witness ==
    /\ pc = "done"
    /\ errs = <<"XML syntax error">>
    /\ Len(recvd) = 1
    /\ stack # <<>>
    /\ stack[Len(stack)].name = "way"
    /\ stack[Len(stack)].kids # <<>>

\* the two outcomes a caller may see once parse() has ended
TwoOutcomes ==
    /\ elemsClosed /\ errcClosed
    /\ Len(recvd) = Len(closedDoc)
    /\ \/ errs = <<>> /\ docEnded
       \/ Len(errs) = 1 /\ ~docEnded

\* C5 as claimed: for any input, parse() ends either without an error, the
\* outermost container left and every event received, or with exactly one
\* error before the document's end.
C5_TwoOutcomesAnyInput == pc = "done" => TwoOutcomes

\* C5, amended: the same for input that follows the schema (one osmChange
\* container, none nested in it).
C5_TwoOutcomes == (pc = "done" /\ schemaOK) => TwoOutcomes

C5_Witness ==
    /\ pc = "done"
    /\ schemaOK
    /\ errs = <<>>
    /\ docEnded
    /\ Len(recvd) = 2

Terminated == pc = "done" /\ elemsClosed /\ errcClosed

\* C6: for every finite input, unless the consumer stops receiving from one
\* of the channels, parse() eventually ends with both channels closed.
C6_Terminates == <>(Terminated \/ ~drainElems \/ ~drainErr)

C6_Witness ==
    /\ Terminated
    /\ drainElems /\ drainErr
    /\ Len(recvd) = 1
    /\ Len(errs) = 1

\* C7: at most one item is in flight and every earlier event has been
\* received; while an item is in flight no token is read and no channel is
\* closed, and the item stays until it is received; with the consumer not
\* receiving it, parse() stays where it is, both channels open.
C7_BlockingRendezvous ==
    /\ [](/\ Len(pendElem) + Len(pendErr) <= 1
          /\ Len(closedDoc) = Len(recvd) + Len(pendElem)
          /\ (pendElem # <<>> \/ pendErr # <<>>) => ~elemsClosed /\ ~errcClosed)
    /\ [][/\ pendElem # <<>> =>
                /\ ntok' = ntok /\ stack' = stack
                /\ ~elemsClosed' /\ ~errcClosed'
                /\ pendElem' = pendElem \/ recvd' = Append(recvd, pendElem[1])
          /\ pendErr # <<>> =>
                /\ ntok' = ntok /\ stack' = stack
                /\ ~elemsClosed' /\ ~errcClosed'
                /\ pendErr' = pendErr \/ errs' = Append(errs, pendErr[1])
          /\ (pendElem # <<>> /\ ~drainElems) =>
                pc' = pc /\ pendElem' = pendElem /\ ~drainElems'
          /\ (pendErr # <<>> /\ ~drainErr) =>
                pc' = pc /\ pendErr' = pendErr /\ ~drainErr']_vars

C7_Witness ==
    /\ pendElem # <<>>
    /\ ~drainElems
    /\ Len(recvd) = 1
    /\ ~elemsClosed /\ ~errcClosed

\* C8: when parse() has ended, neither the file nor the gzip reader it
\* acquired is still open.
C8_ReleasesFileAndStream == pc = "done" => ~fileOpen /\ ~readerOpen

TagKids(d) == SelectSeq(d.kids, LAMBDA c : c.name = "tag")
TagKey(c) == IF LastAttr(c.attr, "k") = <<>> THEN "" ELSE LastAttr(c.attr, "k")[1]
TagValue(c) == IF LastAttr(c.attr, "v") = <<>> THEN "" ELSE LastAttr(c.attr, "v")[1]

\* the k/v pairs of the tag children of element d, the last one of a key winning
DocTags(d) ==
    LET t == TagKids(d)
        last(k) == CHOOSE i \in 1..Len(t) :
                      /\ TagKey(t[i]) = k
                      /\ \A j \in (i + 1)..Len(t) : TagKey(t[j]) # k
    IN [k \in {TagKey(t[i]) : i \in 1..Len(t)} |-> TagValue(t[last(k)])]

TagsAsClaimed ==
    \A i \in 1..Len(Emitted) :
        LET f == FeatureOf(Emitted[i])
            d == closedDoc[i]
        IN /\ f.Tags # 0 => TagKids(d) # <<>>
           /\ TagKids(d) = <<>> => (f.Tags = 0 \/ maps[f.Tags] = EmptyMap)
           /\ f.Tags # 0 => maps[f.Tags] = DocTags(d)

\* C9 as claimed: for any input, an event's feature has a tag map only if
\* its element had a tag child, an element without one is sent without tags,
\* and an attached map holds the element's own k/v pairs, last write winning.
C9_OwnTagsAnyInput == TagsAsClaimed

\* C9, amended: the same for input that follows the schema (every tag is the
\* child of a node, way or relation).
C9_OwnTags == schemaOK => TagsAsClaimed

C9_Witness ==
    /\ schemaOK
    /\ Len(recvd) = 1
    /\ Len(TagKids(closedDoc[1])) = 2
    /\ TagValue(TagKids(closedDoc[1])[1]) = "cafe"
    /\ FeatureOf(recvd[1]).Tags # 0
    /\ maps[FeatureOf(recvd[1]).Tags] = ("amenity" :> "bar")

\* key k with value v matches a rule of the filter
Matches(k, v) ==
    /\ k \in DOMAIN fmappings
    /\ "__any__" \in fmappings[k] \/ v \in fmappings[k]

\* C10: TagFilter.Filter adds no key and changes no value; when it returns,
\* the tag map holds exactly the entries passed whose key matches a rule or
\* is always retained, and the result is true iff some key passed matched a
\* rule.
C10_FilterResult ==
    fkind = "tag" =>
        /\ \A k \in DOMAIN ftags : k \in DOMAIN fin /\ ftags[k] = fin[k]
        /\ fpc = "done" =>
              /\ DOMAIN ftags = {k \in DOMAIN fin : Matches(k, fin[k]) \/ k \in fextra}
              /\ fret = <<\E k \in DOMAIN fin : Matches(k, fin[k])>>

C10_Witness ==
    /\ fkind = "tag"
    /\ fpc = "done"
    /\ fret = <<FALSE>>
    /\ fin = ("name" :> "Joe") @@ ("foo" :> "bar") @@ ("shop" :> "butcher")
    /\ fmappings = ("shop" :> {"bakery"})
    /\ ftags = ("name" :> "Joe")

\* C11: TagFilter.Filter is idempotent: while it is applied a second time to
\* the tag map the first application left, the tag map stays as the first
\* application left it, and the second application returns the first one's
\* result.
C11_Idempotent ==
    (fkind = "tag" /\ fprev # <<>>) =>
        /\ ftags = fprev[1].tags
        /\ fpc = "done" => fret = <<fprev[1].ret>>

C11_Witness ==
    /\ fkind = "tag"
    /\ fprev # <<>>
    /\ fpc = "done"
    /\ fret = <<TRUE>>
    /\ fin = ("name" :> "Joe") @@ ("foo" :> "bar") @@ ("shop" :> "bakery")
    /\ ftags = ("name" :> "Joe") @@ ("shop" :> "bakery")

\* the tag map passed has a type key with one of the three structural values
Structural ==
    /\ "type" \in DOMAIN fin
    /\ fin["type"] \in {"multipolygon", "boundary", "land_area"}

\* C12: RelationTagFilter.Filter on a tag map without a type key, or with
\* another type value, returns false and never enters the wrapped filter (the
\* tag map stays as passed); for the three structural values it runs the
\* wrapped TagFilter, which prunes the tag map, and returns true whatever
\* the wrapped filter returned.
C12_RelationFilter ==
    fkind = "relation" =>
        IF Structural
        THEN fpc = "done" =>
                /\ fret = <<TRUE>>
                /\ fwrapped \in {<<TRUE>>, <<FALSE>>}
                /\ DOMAIN ftags =
                      {k \in DOMAIN fin : Matches(k, fin[k]) \/ k \in fextra}
                /\ \A k \in DOMAIN ftags : ftags[k] = fin[k]
        ELSE /\ fpc \in {"call", "done"}
             /\ ftags = fin
             /\ fwrapped = <<>>
             /\ fpc = "done" => fret = <<FALSE>>

C12_Witness ==
    /\ fkind = "relation"
    /\ fpc = "done"
    /\ fprev = <<>>
    /\ fin = ("type" :> "boundary") @@ ("foo" :> "bar") @@ ("shop" :> "butcher")
    /\ fmappings = ("shop" :> {"bakery"})
    /\ fextra = {"type"}
    /\ ftags = ("type" :> "boundary")
    /\ fwrapped = <<FALSE>>
    /\ fret = <<TRUE>>

MemberKids(d) == SelectSeq(d.kids, LAMBDA c : c.name = "member")

\* a member whose type is not a known member kind or whose ref is not a number
BadMember(c) ==
    \E i \in 1..Len(c.attr) :
        \/ c.attr[i][1] = "type" /\ c.attr[i][2] \notin {"node", "way", "relation"}
        \/ c.attr[i][1] = "ref" /\ ~ParseInt(c.attr[i][2]).ok

\* the member a well-formed member child stands for
MemberOf(c) ==
    [Id |-> IF LastAttr(c.attr, "ref") = <<>> THEN 0
            ELSE ParseInt(LastAttr(c.attr, "ref")[1]).val,
     Type |-> IF LastAttr(c.attr, "type") = <<>> THEN 0
              ELSE MemberTypeValues[LastAttr(c.attr, "type")[1]],
     Role |-> IF LastAttr(c.attr, "role") = <<>> THEN ""
              ELSE LastAttr(c.attr, "role")[1]]

\* the members of relation d: its member children but the bad ones, in order
RECURSIVE GoodMembers(_)
GoodMembers(kids) ==
    IF kids = <<>> THEN <<>>
    ELSE (IF BadMember(Head(kids)) THEN <<>> ELSE <<MemberOf(Head(kids))>>)
         \o GoodMembers(Tail(kids))

\* the innermost open element is a member that has just been read
MemberRead ==
    /\ stack' # <<>>
    /\ Len(stack') = Len(stack) + 1
    /\ stack'[Len(stack')].name = "member"

\* C13: a member child with an unknown type or a non-numeric ref is dropped
\* alone: every relation is emitted, and its member list holds its other
\* member children in document order; reading a member, bad or not, raises
\* no error and leaves parse() reading tokens.
C13_BadMemberDroppedAlone ==
    /\ [](\A i \in 1..Len(closedDoc) :
              closedDoc[i].name = "relation" =>
                  /\ i <= Len(Emitted)
                  /\ Emitted[i].Rel # 0
                  /\ rels[Emitted[i].Rel].Members =
                        GoodMembers(MemberKids(closedDoc[i])))
    /\ [][MemberRead =>
             /\ failure' = failure
             /\ pendErr' = pendErr
             /\ pc' = "token"]_vars

C13_Witness ==
    /\ failure = <<>>
    /\ Len(recvd) = 1
    /\ recvd[1].Rel # 0
    /\ Len(MemberKids(closedDoc[1])) = 2
    /\ BadMember(MemberKids(closedDoc[1])[1])
    /\ rels[recvd[1].Rel].Members = <<[Id |-> 2, Type |-> 2, Role |-> ""]>>

\* the start marker of an element called name has just been read
StartRead(name) ==
    /\ stack' # <<>>
    /\ Len(stack') = Len(stack) + 1
    /\ stack'[Len(stack')].name = name

\* the attributes just read
AttrRead == stack'[Len(stack')].attr

\* attribute name is there and its value does not parse as an integer / a
\* float / an RFC 3339 time
IntFails(attrs, name) ==
    LastAttr(attrs, name) # <<>> /\ ~ParseInt(LastAttr(attrs, name)[1]).ok
FloatFails(attrs, name) ==
    LastAttr(attrs, name) # <<>> /\ ~ParseFloat(LastAttr(attrs, name)[1]).ok
TimeFails(attrs, name) ==
    LastAttr(attrs, name) # <<>> /\ LastAttr(attrs, name)[1] \notin DOMAIN TimeTable

\* the provenance fields whose attribute fails to parse are zero
MetadataZeroed(attrs, elem) ==
    metadata =>
        /\ IntFails(attrs, "version") => elem.Metadata[1].Version = 0
        /\ IntFails(attrs, "uid") => elem.Metadata[1].UserId = 0
        /\ IntFails(attrs, "changeset") => elem.Metadata[1].Changeset = 0
        /\ TimeFails(attrs, "timestamp") => elem.Metadata[1].Timestamp = ZeroTime

\* C14: an id, lat, lon, nd ref or provenance attribute whose value fails to
\* parse leaves the zero value in its field (a zero reference for an nd);
\* reading it raises no error and leaves parse() reading tokens, and every
\* element closed is emitted.
C14_ParseFailureGivesZero ==
    /\ [](Len(Emitted) = Len(closedDoc))
    /\ [][/\ StartRead("node") =>
                /\ IntFails(AttrRead, "id") => nodes'[node'].Id = 0
                /\ FloatFails(AttrRead, "lat") => nodes'[node'].Lat = 0
                /\ FloatFails(AttrRead, "lon") => nodes'[node'].Long = 0
                /\ MetadataZeroed(AttrRead, nodes'[node'])
          /\ StartRead("way") =>
                /\ IntFails(AttrRead, "id") => ways'[way'].Id = 0
                /\ MetadataZeroed(AttrRead, ways'[way'])
          /\ StartRead("relation") =>
                /\ IntFails(AttrRead, "id") => rels'[rel'].Id = 0
                /\ MetadataZeroed(AttrRead, rels'[rel'])
          /\ (StartRead("nd") /\ IntFails(AttrRead, "ref")) =>
                ways'[way'].Refs = Append(ways[way].Refs, 0)
          /\ (\E n \in Elements \cup {"nd"} : StartRead(n)) =>
                /\ failure' = failure
                /\ pendErr' = pendErr
                /\ pc' = "token"]_vars

\* C15: a call of either filter changes the caller's tag map only: the rule
\* table and the always-retained set stay as constructed, and of two calls
\* running at the same time on tag maps of their own, interleaved in any
\* way, each leaves the tag map and returns the result it gives when it runs
\* alone.
C15_ConcurrentCalls ==
    /\ [](/\ fpc = "done" => <<ftags, fret[1]>> = FilterAlone(fkind, fin)
          /\ gpc = "done" => <<gtags, gret[1]>> = FilterAlone(fkind, gin))
    /\ [][fmappings' = fmappings /\ fextra' = fextra]_vars

C15_Witness ==
    /\ fpc = "range" /\ gpc = "range"
    /\ Cardinality(ftodo) = 1 /\ Cardinality(gtodo) = 1
    /\ ftags # fin /\ gtags # gin
    /\ foundMapping /\ ~gfound

\* C16: a call of either filter never stops short of returning, and the tag
\* map it leaves and its result are those of the run that visits the keys in
\* one fixed order: they depend on the tag map passed and the rule tables
\* only, whatever the order in which the range loop visits the keys while
\* it deletes entries, the empty tag map and an empty key and value included.
C16_Deterministic ==
    /\ fpc \in {"call", "range", "wrapped"} => ENABLED FilterNext
    /\ fpc = "done" => <<ftags, fret[1]>> = FilterAlone(fkind, fin)

C16_Witness ==
    /\ fpc = "done"
    /\ fkind = "tag"
    /\ fin = ("" :> "") @@ ("foo" :> "bar") @@ ("shop" :> "butcher") @@ ("name" :> "Joe")
    /\ fmappings = ("shop" :> {"bakery"})
    /\ fextra = {"name"}
    /\ ftags = ("name" :> "Joe")
    /\ fret = <<FALSE>>

\* the operation context the start marker of section name sets
ContextOf(name) == <<name = "create", name = "modify", name = "delete">>

\* C17: at most one of add, mod, del is true at any point; a step changes
\* the operation context only by reading the start marker of a create,
\* modify or delete section, which sets it to that section's, and every
\* other step (the end of a section included) leaves it as it is, so it is
\* always that of the section entered last; an event is sent with the
\* context as its flags, and the flags of an event sent do not change.
C17_OperationContext ==
    /\ [](Cardinality({f \in {"add", "mod", "del"} :
                          \/ f = "add" /\ add
                          \/ f = "mod" /\ mod
                          \/ f = "del" /\ del}) <= 1)
    /\ [][/\ \A n \in Sections :
                StartRead(n) => <<add', mod', del'>> = ContextOf(n)
          /\ ~(\E n \in Sections : StartRead(n)) =>
                <<add', mod', del'>> = <<add, mod, del>>
          /\ (pendElem = <<>> /\ pendElem' # <<>>) =>
                <<pendElem'[1].Add, pendElem'[1].Mod, pendElem'[1].Del>>
                   = <<add, mod, del>>
          /\ \A i \in 1..Len(recvd) : recvd'[i] = recvd[i]]_vars

C17_Witness ==
    /\ Len(recvd) = 1
    /\ recvd[1].Del /\ ~recvd[1].Add /\ ~recvd[1].Mod
    /\ closedDoc[1].name = "node"
    /\ Len(stack) = 1
    /\ del

\* the tag maps carried by the events sent
EmittedTagMaps == {FeatureOf(Emitted[i]).Tags : i \in 1..Len(Emitted)} \ {0}

\* C18: once an event is sent, no step changes the record it carries or the
\* tag map attached to that record; the scratch slots and the pending tag
\* map are never a record or a tag map that an event sent carries.
C18_NoReuseAfterHandOff ==
    /\ [](/\ \A i \in 1..Len(Emitted) :
                /\ Emitted[i].Node # node
                /\ Emitted[i].Way # way
                /\ Emitted[i].Rel # rel
          /\ tags \notin EmittedTagMaps)
    /\ [][\A i \in 1..Len(Emitted) :
             /\ Emitted[i].Node # 0 => nodes'[Emitted[i].Node] = nodes[Emitted[i].Node]
             /\ Emitted[i].Way # 0 => ways'[Emitted[i].Way] = ways[Emitted[i].Way]
             /\ Emitted[i].Rel # 0 => rels'[Emitted[i].Rel] = rels[Emitted[i].Rel]
             /\ FeatureOf(Emitted[i]).Tags # 0 =>
                   maps'[FeatureOf(Emitted[i]).Tags] = maps[FeatureOf(Emitted[i]).Tags]]_vars

C18_Witness ==
    /\ Len(recvd) = 1
    /\ FeatureOf(recvd[1]).Tags # 0
    /\ maps[FeatureOf(recvd[1]).Tags] = ("amenity" :> "cafe")
    /\ stack # <<>>
    /\ stack[Len(stack)].name = "tag"
    /\ maps[tags] = ("amenity" :> "bar")

\* the values of the ref attributes of the nd children in kids, in order
RECURSIVE RefValues(_)
RefValues(attrs) ==
    IF attrs = <<>> THEN <<>>
    ELSE (IF Head(attrs)[1] = "ref" THEN <<ParseInt(Head(attrs)[2]).val>> ELSE <<>>)
         \o RefValues(Tail(attrs))

RECURSIVE NdRefs(_)
NdRefs(kids) ==
    IF kids = <<>> THEN <<>>
    ELSE (IF Head(kids).name = "nd" THEN RefValues(Head(kids).attr) ELSE <<>>)
         \o NdRefs(Tail(kids))

\* C19: for input that follows the schema nothing carries over between
\* elements: a way is sent with the refs of its own nd children, in order,
\* a relation with its own member children but the bad ones, in order, and
\* an element without an id (a node without lat or lon) with zero there.
C19_NothingCarriesOver ==
    schemaOK =>
        \A i \in 1..Len(Emitted) :
            LET d == closedDoc[i]
                f == FeatureOf(Emitted[i])
            IN /\ d.name = "way" => f.Refs = NdRefs(d.kids)
               /\ d.name = "relation" => f.Members = GoodMembers(MemberKids(d))
               /\ LastAttr(d.attr, "id") = <<>> => f.Id = 0
               /\ (d.name = "node" /\ LastAttr(d.attr, "lat") = <<>>) => f.Lat = 0
               /\ (d.name = "node" /\ LastAttr(d.attr, "lon") = <<>>) => f.Long = 0

C19_Witness ==
    /\ schemaOK
    /\ Len(recvd) = 2
    /\ closedDoc[1].name = "node" /\ closedDoc[2].name = "node"
    /\ FeatureOf(recvd[1]).Id = 1 /\ FeatureOf(recvd[1]).Long = 25
    /\ LastAttr(closedDoc[2].attr, "id") = <<>>
    /\ FeatureOf(recvd[2]).Id = 0 /\ FeatureOf(recvd[2]).Long = 0

\* the errors decoder.Token() returns at the end of the input
EndOfInput == {<<"EOF">>, <<"unexpected EOF">>}

\* the end of the input was met: the one error is the tokenizer's, the events
\* of all elements closed were received before it was sent, and parse() ends
\* with that error received
EndReported ==
    /\ failure \in EndOfInput
    /\ errs \o pendErr = failure
    /\ pendElem = <<>>
    /\ Len(recvd) = Len(closedDoc)
    /\ pc = "done" => errs = failure

\* C20 as claimed: when the input has ended and the outermost container has
\* not been closed, the events of all elements closed have been received, then
\* the end of input reported as the one error; there is no clean end.
C20_EndOfInputAnyInput == (inputEnded /\ ~docEnded) => EndReported

\* C20, amended: the same when the input has ended and no osmChange end
\* marker has been read.
C20_EndOfInput == (inputEnded /\ ~CleanEnd) => EndReported

C20_Witness ==
    /\ pc = "done"
    /\ inputEnded
    /\ errs = <<"unexpected EOF">>
    /\ Len(recvd) = 1
    /\ Len(stack) = 2

====
